---- MODULE Spec2Model ----
(***************************************************************************)
(* Model of OutfitFlowApi/app.py: the single-image background remover      *)
(* (POST /remove-background), the batch runner                             *)
(* (POST /remove-background-batch), process_image and optimize_image.      *)
(*                                                                         *)
(* Strings the code inspects character by character (content types, file   *)
(* names, archive entry names) are sequences of one-character strings.     *)
(* zero-based Python indices are kept zero-based (idx); files[idx + 1] is  *)
(* the item at Python position idx.  endpoint is the route of the request  *)
(* being handled; each request runs one handler.                           *)
(***************************************************************************)
EXTENDS Integers, Sequences, FiniteSets, TLC

VARIABLES endpoint, file, files, pc, idx, image_bytes, zip_entries, skipped,
          reads, calls, response

vars == <<endpoint, file, files, pc, idx, image_bytes, zip_entries, skipped,
          reads, calls, response>>

(***************************************************************************)
(* Program constants (app.py lines 31-33).                                 *)
(***************************************************************************)
MAX_IMAGE_WIDTH == 1024

MAX_BATCH_SIZE == 15

JPEG_QUALITY == 90

(***************************************************************************)
(* Bounds of the model.                                                    *)
(***************************************************************************)
\* longest batch drawn with items that all look alike (covers 0, 15, 16)
MaxFiles == 16

\* longest batch drawn with arbitrary, mixed items
MaxVaried == 3

\* image heights 1..MaxSmallHeight are drawn next to the fixed sizes
MaxSmallHeight == 3

(***************************************************************************)
(* Character strings.                                                      *)
(***************************************************************************)
DigitChars == <<"0", "1", "2", "3", "4", "5", "6", "7", "8", "9">>

RECURSIVE Dec(_)
\* str(n) for n >= 0: the decimal digits, most significant first
Dec(n) == IF n < 10 THEN <<DigitChars[n + 1]>>
          ELSE Dec(n \div 10) \o <<DigitChars[(n % 10) + 1]>>

RECURSIVE ZeroPad(_, _)
\* left-pad with "0" up to the given width, never truncating
ZeroPad(s, width) == IF Len(s) >= width THEN s ELSE ZeroPad(<<"0">> \o s, width)

\* f"{idx:03d}"
Fmt03d(n) == ZeroPad(Dec(n), 3)

\* s.startswith(p)
StartsWith(s, p) == /\ Len(s) >= Len(p)
                    /\ SubSeq(s, 1, Len(p)) = p

\* '.' in s
HasDot(s) == \E i \in 1..Len(s) : s[i] = "."

\* position of the last '.' of s (s contains one)
LastDot(s) == CHOOSE i \in 1..Len(s) :
                 /\ s[i] = "."
                 /\ \A j \in (i + 1)..Len(s) : s[j] # "."

\* file.filename.rsplit('.', 1)[0] if '.' in file.filename else file.filename
BaseName(s) == IF HasDot(s) THEN SubSeq(s, 1, LastDot(s) - 1) ELSE s

\* zip_filename = f"{base_name}.jpg": the position prefix is left out
ZipFilenameNoIndex(i, filename) == BaseName(filename) \o <<".", "j", "p", "g">>

\* zip_filename = f"{idx:03d}_{base_name}.jpg"
ZipFilename(i, filename) ==
    Fmt03d(i) \o <<"_">> \o BaseName(filename) \o <<".", "j", "p", "g">>

\* chr(0), the NUL character
NUL == "NUL"

\* the name zipfile.ZipInfo stores for an entry written under `name`: the
\* name is cut at its first NUL character
ZipInfoName(name) ==
    IF \E i \in 1..Len(name) : name[i] = NUL
    THEN LET p == CHOOSE i \in 1..Len(name) :
                     /\ name[i] = NUL
                     /\ \A j \in 1..(i - 1) : name[j] # NUL
         IN  SubSeq(name, 1, p - 1)
    ELSE name

\* characters of the model's alphabet that latin-1 cannot encode: a CJK
\* character and a lone surrogate
NonLatin1 == {"U+65E5", "U+D800"}

\* characters that UTF-8 cannot encode (lone surrogates)
NotUtf8 == {"U+D800"}

\* the largest encoded name length the 16-bit field of a ZIP header holds
MaxZipNameLen == 65535

\* len(name.encode('ascii')), or len(name.encode('utf-8')) for a name that
\* is not ASCII: the CJK character takes three bytes, the others one
EncodedLen(name) ==
    Len(name) + 2 * Cardinality({i \in 1..Len(name) : name[i] = "U+65E5"})

\* zip_file.writestr(name, data) raises: the stored name (cut at its first
\* NUL) cannot be encoded (UnicodeEncodeError), or its encoding does not
\* fit the length field of the entry header (struct.error)
WritestrRaises(name) ==
    LET stored == ZipInfoName(name)
    IN  \/ \E i \in 1..Len(stored) : stored[i] \in NotUtf8
        \/ EncodedLen(stored) > MaxZipNameLen

\* str(e) of the UnicodeEncodeError of stored.encode('utf-8'): the first
\* run first..last (zero-based) of characters that UTF-8 cannot encode
Utf8ErrorMessage(stored) ==
    LET bad   == {i \in 1..Len(stored) : stored[i] \in NotUtf8}
        first == CHOOSE i \in bad : \A j \in bad : i <= j
        last  == CHOOSE i \in first..Len(stored) :
                    /\ \A j \in first..i : j \in bad
                    /\ (i + 1) \notin bad
    IN  IF first = last
        THEN <<"'utf-8' codec can't encode character ", stored[first], " in position ">>
                \o Dec(first - 1) \o <<": surrogates not allowed">>
        ELSE <<"'utf-8' codec can't encode characters in position ">>
                \o Dec(first - 1) \o <<"-">> \o Dec(last - 1)
                \o <<": surrogates not allowed">>

\* str(e) of the exception writestr raises for such a name: the encoding
\* error, or the struct.error of the 16-bit length field
WritestrMessage(name) ==
    LET stored == ZipInfoName(name)
    IN  IF \E i \in 1..Len(stored) : stored[i] \in NotUtf8
        THEN Utf8ErrorMessage(stored)
        ELSE <<"ushort format requires 0 <= number <= 65535">>

(***************************************************************************)
(* IEEE-754 binary64 arithmetic, as far as optimize_image uses it:         *)
(*   ratio      = MAX_IMAGE_WIDTH / image.width   (true division)          *)
(*   new_height = int(image.height * ratio)       (multiply, truncate)     *)
(* A double is a pair (bits, exp): bits is the significand as a sequence   *)
(* of 0/1, most significant first, and the value is bits * 2^exp.  Both    *)
(* operations round to nearest, ties to even, at 53 significant bits.      *)
(* The long division and the multiplication work on LimbBits bits at a     *)
(* time, which is exact for widths and heights below 2^18.                 *)
(***************************************************************************)
MantissaBits == 53

LimbBits == 13

Min(a, b) == IF a < b THEN a ELSE b

\* the k-bit binary representation of n, 0 <= n < 2^k
Bin(n, k) == [i \in 1..k |-> (n \div (2 ^ (k - i))) % 2]

\* number of significant bits of n >= 0
BitLen(n) == CHOOSE k \in 0..31 : n < 2 ^ k

\* binary representation of n >= 0 without leading zeros
IntToBits(n) == Bin(n, BitLen(n))

RECURSIVE BitsToInt(_)
\* the value of a bit sequence (below 2^31)
BitsToInt(bits) ==
    IF Len(bits) = 0 THEN 0
    ELSE IF Len(bits) = 1 THEN bits[1]
    ELSE LET half == Len(bits) \div 2
             hi   == BitsToInt(SubSeq(bits, 1, half))
             lo   == BitsToInt(SubSeq(bits, half + 1, Len(bits)))
         IN  hi * (2 ^ (Len(bits) - half)) + lo

\* bits + 1
IncBits(bits) ==
    IF \A i \in 1..Len(bits) : bits[i] = 1
    THEN <<1>> \o [i \in 1..Len(bits) |-> 0]
    ELSE LET p == CHOOSE i \in 1..Len(bits) :
                     /\ bits[i] = 0
                     /\ \A j \in (i + 1)..Len(bits) : bits[j] = 1
         IN  [i \in 1..Len(bits) |-> IF i < p THEN bits[i]
                                     ELSE IF i = p THEN 1 ELSE 0]

\* position after the binary point of the first 1 bit of a / b (0 < a < b)
LeadPos(a, b) == CHOOSE j \in 1..31 : a * (2 ^ j) >= b

RECURSIVE QuotBits(_, _, _)
\* the next n quotient bits of the long division r / w (0 <= r < w), and
\* the remainder left after them
QuotBits(r, w, n) ==
    IF n = 0 THEN [bits |-> <<>>, rem |-> r]
    ELSE LET k    == Min(n, LimbBits)
             num  == r * (2 ^ k)
             rest == QuotBits(num % w, w, n - k)
         IN  [bits |-> Bin(num \div w, k) \o rest.bits, rem |-> rest.rem]

\* float(a) / float(b) for integers 0 < a < b, rounded to nearest even
FloatDiv(a, b) ==
    LET j0 == LeadPos(a, b)
        q  == QuotBits(a * (2 ^ (j0 - 1)), b, MantissaBits)
        up == \/ 2 * q.rem > b
              \/ (2 * q.rem = b /\ q.bits[MantissaBits] = 1)
    IN  [bits |-> IF up THEN IncBits(q.bits) ELSE q.bits,
         exp  |-> 0 - (j0 + MantissaBits - 1)]

RECURSIVE MulBits(_, _, _)
\* bits * h + carry * 2^Len(bits), for a small non-negative integer h
MulBits(bits, h, carry) ==
    IF Len(bits) = 0 THEN IntToBits(carry)
    ELSE LET k   == Min(Len(bits), LimbBits)
             low == BitsToInt(SubSeq(bits, Len(bits) - k + 1, Len(bits)))
             t   == low * h + carry
         IN  MulBits(SubSeq(bits, 1, Len(bits) - k), h, t \div (2 ^ k))
                 \o Bin(t % (2 ^ k), k)

\* x rounded to MantissaBits significant bits, nearest even
RoundBits(x) ==
    LET L == Len(x.bits)
    IN  IF L <= MantissaBits THEN x
        ELSE LET keep   == SubSeq(x.bits, 1, MantissaBits)
                 guard  == x.bits[MantissaBits + 1]
                 sticky == \E i \in (MantissaBits + 2)..L : x.bits[i] = 1
                 up     == guard = 1 /\ (sticky \/ keep[MantissaBits] = 1)
             IN  [bits |-> IF up THEN IncBits(keep) ELSE keep,
                  exp  |-> x.exp + (L - MantissaBits)]

\* float(h) * x for an integer h >= 1
FloatMulInt(h, x) == RoundBits([bits |-> MulBits(x.bits, h, 0), exp |-> x.exp])

\* int(x) for a double 0 <= x < 2^31: truncation toward zero
FloatToInt(x) ==
    IF x.exp >= 0 THEN BitsToInt(x.bits \o [i \in 1..x.exp |-> 0])
    ELSE IF 0 - x.exp >= Len(x.bits) THEN 0
         ELSE BitsToInt(SubSeq(x.bits, 1, Len(x.bits) + x.exp))

\* ratio = MAX_IMAGE_WIDTH / image.width; new_height = int(image.height * ratio)
NewHeight(width, height) ==
    FloatToInt(FloatMulInt(height, FloatDiv(MAX_IMAGE_WIDTH, width)))

(***************************************************************************)
(* Images.  The uploaded bytes are described by what the codec library     *)
(* will make of them: the mode and size Image.open reports, and the step   *)
(* of process_image, if any, at which a library call raises for a reason   *)
(* of its own (unrecognised data, model failure, encoder failure, ...).    *)
(***************************************************************************)
Modes == {"1", "L", "LA", "La", "P", "PA", "RGB", "RGBA", "RGBa", "CMYK"}

Steps == <<"decode", "convert", "resize", "remove", "composite", "encode">>

Faults == {"none"} \cup {Steps[i] : i \in 1..Len(Steps)}

\* str(e) of the exception a library call raises at the given step
FaultMessage(step) ==
    CASE step = "decode"    -> "cannot identify image file"
      [] step = "convert"   -> "conversion not supported"
      [] step = "resize"    -> "image file is truncated"
      [] step = "remove"    -> "background removal failed"
      [] step = "composite" -> "bad transparency mask"
      [] step = "encode"    -> "encoder error"

\* str(e) of the ValueError of Image.resize for an empty target size
EmptySizeMessage == "height and width must be > 0"

NoImage == [fault |-> "none", mode |-> "none", width |-> 0, height |-> 0]

NoJpeg == [format |-> "none", mode |-> "none", width |-> 0, height |-> 0,
           quality |-> 0, source_mode |-> "none"]

\* if input_image.mode in ('RGBA', 'LA', 'P'): convert('RGBA') else convert('RGB')
NormalizeMode(mode) ==
    IF mode \in {"RGBA", "LA", "P"} THEN "RGBA" ELSE "RGB"

\* image.resize((width, height), LANCZOS): raises for an empty target size
Resize(image, width, height) ==
    IF width < 1 \/ height < 1
    THEN [raised |-> TRUE, message |-> EmptySizeMessage, image |-> NoImage]
    ELSE IF image.fault = "resize"
    THEN [raised |-> TRUE, message |-> FaultMessage("resize"), image |-> NoImage]
    ELSE [raised |-> FALSE, message |-> "",
          image |-> [image EXCEPT !.width = width, !.height = height]]

\* optimize_image(image)
OptimizeImage(image) ==
    IF image.width > MAX_IMAGE_WIDTH
    THEN Resize(image, MAX_IMAGE_WIDTH, NewHeight(image.width, image.height))
    ELSE [raised |-> FALSE, message |-> "", image |-> image]

\* raise HTTPException(status_code=500, detail=f"Error procesando imagen: {str(e)}")
ProcessingFailed(message) ==
    [ok |-> FALSE, jpeg |-> NoJpeg, status_code |-> 500,
     detail |-> <<"Error procesando imagen: ", message>>]

\* process_image(image_bytes): the JPEG, or the HTTPException it raises
ProcessImage(bytes) ==
    IF bytes.fault = "decode" THEN ProcessingFailed(FaultMessage("decode"))
    ELSE IF bytes.fault = "convert" THEN ProcessingFailed(FaultMessage("convert"))
    ELSE LET converted == [bytes EXCEPT !.mode = NormalizeMode(bytes.mode)]
             optimized == OptimizeImage(converted)
         IN  IF optimized.raised THEN ProcessingFailed(optimized.message)
             ELSE IF bytes.fault = "remove"
                  THEN ProcessingFailed(FaultMessage("remove"))
             ELSE IF bytes.fault = "composite"
                  THEN ProcessingFailed(FaultMessage("composite"))
             ELSE IF bytes.fault = "encode"
                  THEN ProcessingFailed(FaultMessage("encode"))
             ELSE [ok |-> TRUE, status_code |-> 200, detail |-> <<>>,
                   jpeg |-> [format |-> "JPEG", mode |-> "RGB",
                             width |-> optimized.image.width,
                             height |-> optimized.image.height,
                             quality |-> JPEG_QUALITY,
                             source_mode |-> converted.mode]]

(***************************************************************************)
(* Uploaded items: UploadFile.content_type (a string, or None when the     *)
(* multipart part declares no type), UploadFile.filename and the bytes     *)
(* file.read() returns.                                                    *)
(***************************************************************************)
Str(s) == [none |-> FALSE, str |-> s]

None == [none |-> TRUE, str |-> <<>>]

CT_PNG == Str(<<"i", "m", "a", "g", "e", "/", "p", "n", "g">>)

CT_JPEG == Str(<<"i", "m", "a", "g", "e", "/", "j", "p", "e", "g">>)

CT_TEXT == Str(<<"t", "e", "x", "t", "/", "p", "l", "a", "i", "n">>)

CT_BARE == Str(<<"i", "m", "a", "g", "e">>)

CT_EMPTY == Str(<<>>)

FN_A_PNG == <<"a", ".", "p", "n", "g">>

FN_A_JPG == <<"a", ".", "j", "p", "g">>

FN_A == <<"a">>

FN_TAR_GZ == <<"b", ".", "t", "a", "r", ".", "g", "z">>

FN_HIDDEN == <<".", "x">>

FN_NUL == <<"a", NUL, "b", ".", "p", "n", "g">>

FN_CJK == <<"U+65E5", ".", "p", "n", "g">>

\* a name with a lone surrogate, as the multipart parser decodes it under a
\* request charset such as unicode_escape
FN_SURROGATE == <<"U+D800", ".", "p", "n", "g">>

\* the longest extension-free name whose entry name still fits
FN_LONG == [i \in 1..(MaxZipNameLen - 8) |-> "x"]

\* one character more: the entry name is one byte too long
FN_TOO_LONG == [i \in 1..(MaxZipNameLen - 7) |-> "x"]

\* a CJK name whose entry name fits in characters but not in bytes
FN_CJK_LONG == [i \in 1..((MaxZipNameLen - 8) \div 3 + 1) |-> "U+65E5"]

ImagePrefix == <<"i", "m", "a", "g", "e", "/">>

Item(ct, fn, img) == [content_type |-> ct, filename |-> fn, image |-> img]

NoFile == Item(None, <<>>, NoImage)

Img(fault, mode, w, h) == [fault |-> fault, mode |-> mode, width |-> w, height |-> h]

\* image sizes drawn: around MAX_IMAGE_WIDTH, and wide enough for the
\* scaled height to fall below 1
Widths == {1, 1023, 1024, 1025, 1122, 2048, 4096}

Heights == (1..MaxSmallHeight) \cup {561, 1122}

SingleContentTypes == {CT_PNG, CT_JPEG, CT_TEXT, CT_BARE, CT_EMPTY, None}

SingleImages == {Img(f, m, w, h) : f \in Faults, m \in Modes, w \in Widths, h \in Heights}

SingleItems == {Item(ct, fn, img) : ct \in SingleContentTypes,
                                    fn \in {FN_A_PNG, FN_A, FN_CJK},
                                    img \in SingleImages}

GoodImage == Img("none", "RGB", 800, 600)

BatchItems ==
    {Item(CT_PNG, fn, GoodImage) : fn \in {FN_A_PNG, FN_A_JPG, FN_TAR_GZ, FN_A}}
    \cup {Item(CT_JPEG, FN_HIDDEN, GoodImage),
          Item(CT_PNG, FN_NUL, GoodImage),
          Item(CT_PNG, FN_SURROGATE, GoodImage),
          Item(CT_TEXT, FN_A_PNG, GoodImage),
          Item(None, FN_A_PNG, GoodImage),
          Item(None, FN_A, GoodImage)}
    \cup {Item(CT_JPEG, FN_A_PNG, img) :
             img \in {Img("decode", "RGB", 800, 600),
                      Img("remove", "RGBA", 2048, 3),
                      Img("encode", "P", 1024, 1),
                      Img("none", "L", 4096, 1)}}

\* batches of up to MaxVaried arbitrary items
VariedBatches == UNION {[1..n -> BatchItems] : n \in 0..MaxVaried}

\* batches of up to MaxFiles items that alternate between two items
AlternatingBatches ==
    {[i \in 1..n |-> IF i % 2 = 1 THEN x ELSE y] :
        n \in 0..MaxFiles, x \in BatchItems, y \in BatchItems}

\* items whose file names are as long as a ZIP entry name can be
LongNameItems ==
    {Item(CT_PNG, fn, GoodImage) : fn \in {FN_LONG, FN_TOO_LONG, FN_CJK_LONG}}

\* batches with a long-named item alone, or before or after a short-named one
LongNameBatches ==
    {<<x>> : x \in LongNameItems}
    \cup {<<x, Item(CT_PNG, FN_A_PNG, GoodImage)>> : x \in LongNameItems}
    \cup {<<Item(CT_PNG, FN_A_PNG, GoodImage), x>> : x \in LongNameItems}

Batches == VariedBatches \cup AlternatingBatches \cup LongNameBatches

(***************************************************************************)
(* Responses.                                                              *)
(***************************************************************************)
NoResponse == [status |-> 0, media_type |-> "", detail |-> <<>>,
               jpeg |-> NoJpeg, zip |-> <<>>, disposition |-> <<>>]

\* raise HTTPException(status_code=..., detail=...)
HTTPException(status_code, detail) ==
    [NoResponse EXCEPT !.status = status_code, !.detail = detail,
                       !.media_type = "application/json"]

\* the text before the file name in the Content-Disposition header
DispositionPrefix == <<"a", "t", "t", "a", "c", "h", "m", "e", "n", "t", ";", " ",
                       "f", "i", "l", "e", "n", "a", "m", "e", "=", "\"",
                       "p", "r", "o", "c", "e", "s", "s", "e", "d", "_">>

\* str(e) of the UnicodeEncodeError of value.encode("latin-1"): the first
\* run first..last (zero-based) of characters that latin-1 cannot encode
Latin1ErrorMessage(value) ==
    LET bad   == {i \in 1..Len(value) : value[i] \in NonLatin1}
        first == CHOOSE i \in bad : \A j \in bad : i <= j
        last  == CHOOSE i \in first..Len(value) :
                    /\ \A j \in first..i : j \in bad
                    /\ (i + 1) \notin bad
    IN  IF first = last
        THEN <<"'latin-1' codec can't encode character ", value[first], " in position ">>
                \o Dec(first - 1) \o <<": ordinal not in range(256)">>
        ELSE <<"'latin-1' codec can't encode characters in position ">>
                \o Dec(first - 1) \o <<"-">> \o Dec(last - 1)
                \o <<": ordinal not in range(256)">>

\* return Response(content=processed_bytes, media_type="image/jpeg",
\* headers={"Content-Disposition": ...}): the header value is encoded as
\* latin-1 when the Response is built, inside the handler's try block, so a
\* file name latin-1 cannot encode ends in the `except Exception` clause
ImageResponse(jpeg, filename) ==
    LET value == DispositionPrefix \o filename \o <<"\"">>
    IN  IF \E i \in 1..Len(value) : value[i] \in NonLatin1
        THEN HTTPException(500, Latin1ErrorMessage(value))
        ELSE [NoResponse EXCEPT
                !.status = 200, !.media_type = "image/jpeg", !.jpeg = jpeg,
                !.disposition = value]

\* str(e) of the AttributeError of None.startswith
NoneStartswithMessage == "'NoneType' object has no attribute 'startswith'"

\* not file.content_type.startswith('image/'), for a content type that is a str
NotImageType(ct) == ~StartsWith(ct.str, ImagePrefix)

(***************************************************************************)
(* POST /remove-background: remove_background_single(file).                *)
(* pc: "start" -> ("read" -> "process" ->) "done".                         *)
(***************************************************************************)
InitSingle ==
    /\ endpoint = "single"
    /\ file \in SingleItems
    /\ files = <<>>
    /\ pc = "start"
    /\ idx = 0
    /\ image_bytes = NoImage
    /\ zip_entries = <<>>
    /\ skipped = {}
    /\ reads = [i \in {0} |-> 0]
    /\ calls = [i \in {0} |-> 0]
    /\ response = NoResponse

\* the content-type test; None.startswith raises AttributeError, which the
\* handler's `except Exception` turns into HTTP 500 with str(e)
SingleValidate ==
    /\ endpoint = "single"
    /\ pc = "start"
    /\ IF file.content_type.none
       THEN /\ response' = HTTPException(500, <<NoneStartswithMessage>>)
            /\ pc' = "done"
       ELSE IF NotImageType(file.content_type)
       THEN /\ response' = HTTPException(400, <<"El archivo debe ser una imagen">>)
            /\ pc' = "done"
       ELSE /\ response' = response
            /\ pc' = "read"
    /\ UNCHANGED <<endpoint, file, files, idx, image_bytes, zip_entries, skipped, reads, calls>>

\* image_bytes = await file.read()
SingleRead ==
    /\ endpoint = "single"
    /\ pc = "read"
    /\ image_bytes' = file.image
    /\ reads' = [reads EXCEPT ![0] = @ + 1]
    /\ pc' = "process"
    /\ UNCHANGED <<endpoint, file, files, idx, zip_entries, skipped, calls, response>>

\* the handler with the HTTPException of process_image caught by the generic
\* `except Exception` clause (its detail replaced by str(e), which is empty)
SingleProcessGenericCatch ==
    /\ endpoint = "single"
    /\ pc = "process"
    /\ calls' = [calls EXCEPT ![0] = @ + 1]
    /\ LET r == ProcessImage(image_bytes)
       IN  response' =
             IF r.ok
             THEN ImageResponse(r.jpeg, file.filename)
             ELSE HTTPException(500, <<"">>)
    /\ pc' = "done"
    /\ UNCHANGED <<endpoint, file, files, idx, image_bytes, zip_entries, skipped, reads>>

\* processed_bytes = process_image(image_bytes); return Response(...), or
\* the HTTPException of process_image re-raised by `except HTTPException`
SingleProcess ==
    /\ endpoint = "single"
    /\ pc = "process"
    /\ calls' = [calls EXCEPT ![0] = @ + 1]
    /\ LET r == ProcessImage(image_bytes)
       IN  response' =
             IF r.ok
             THEN ImageResponse(r.jpeg, file.filename)
             ELSE HTTPException(r.status_code, r.detail)
    /\ pc' = "done"
    /\ UNCHANGED <<endpoint, file, files, idx, image_bytes, zip_entries, skipped, reads>>

NextSingle == SingleValidate \/ SingleRead \/ SingleProcess

SpecSingle == InitSingle /\ [][NextSingle]_vars

(***************************************************************************)
(* POST /remove-background-batch: remove_background_batch(files).          *)
(* pc: "start" -> "loop" -> ("read" -> "process" -> "loop")* -> "respond"  *)
(*     -> "done".  idx is the zero-based index of enumerate(files).        *)
(* files holds the file parts of the request; the handler runs only when   *)
(* there is at least one.                                                  *)
(***************************************************************************)
InitBatch ==
    /\ endpoint = "batch"
    /\ file = NoFile
    /\ files \in Batches
    /\ pc = "start"
    /\ idx = 0
    /\ image_bytes = NoImage
    /\ zip_entries = <<>>
    /\ skipped = {}
    /\ reads = [i \in 0..(Len(files) - 1) |-> 0]
    /\ calls = [i \in 0..(Len(files) - 1) |-> 0]
    /\ response = NoResponse

\* len(files) > MAX_BATCH_SIZE
TooMany(n) == n > MAX_BATCH_SIZE

\* files: List[UploadFile] = File(...): the parameter is required, so for
\* a request without a file part the framework answers 422 and the
\* handler is never entered
BatchMissingFiles ==
    /\ endpoint = "batch"
    /\ pc = "start"
    /\ Len(files) = 0
    /\ response' = HTTPException(422, <<"missing", "body", "files", "Field required">>)
    /\ pc' = "done"
    /\ UNCHANGED <<endpoint, file, files, idx, image_bytes, zip_entries, skipped, reads, calls>>

\* the two size checks at the top of the handler, entered with at least
\* one file part (the accents of the two messages are dropped)
BatchValidate ==
    /\ endpoint = "batch"
    /\ pc = "start"
    /\ Len(files) > 0
    /\ IF TooMany(Len(files))
       THEN /\ response' = HTTPException(400,
                             <<"Maximo ">> \o Dec(MAX_BATCH_SIZE)
                               \o <<" imagenes por lote. Recibidas: ">>
                               \o Dec(Len(files)))
            /\ pc' = "done"
       ELSE IF Len(files) = 0
       THEN /\ response' = HTTPException(400, <<"No se recibieron imagenes">>)
            /\ pc' = "done"
       ELSE /\ response' = response
            /\ pc' = "loop"
    /\ UNCHANGED <<endpoint, file, files, idx, image_bytes, zip_entries, skipped, reads, calls>>

\* the loop head and the content-type test of one item: a content type
\* that is None raises AttributeError inside the item's try block, which
\* skips the item like a non-image type does
BatchCheckType ==
    /\ endpoint = "batch"
    /\ pc = "loop"
    /\ idx < Len(files)
    /\ LET item == files[idx + 1]
       IN  IF item.content_type.none \/ NotImageType(item.content_type)
           THEN /\ skipped' = skipped \cup {idx}
                /\ idx' = idx + 1
                /\ pc' = "loop"
           ELSE /\ skipped' = skipped
                /\ idx' = idx
                /\ pc' = "read"
    /\ UNCHANGED <<endpoint, file, files, image_bytes, zip_entries, reads, calls, response>>

\* image_bytes = await file.read()
BatchRead ==
    /\ endpoint = "batch"
    /\ pc = "read"
    /\ image_bytes' = files[idx + 1].image
    /\ reads' = [reads EXCEPT ![idx] = @ + 1]
    /\ pc' = "process"
    /\ UNCHANGED <<endpoint, file, files, idx, zip_entries, skipped, calls, response>>

\* the item's try block without its `except Exception: continue`: the
\* HTTPException of process_image, or the error of writestr through the
\* handler's outer `except Exception`, fails the whole request
BatchProcessAbort ==
    /\ endpoint = "batch"
    /\ pc = "process"
    /\ calls' = [calls EXCEPT ![idx] = @ + 1]
    /\ LET r == ProcessImage(image_bytes)
           zip_filename == ZipFilename(idx, files[idx + 1].filename)
       IN  IF r.ok /\ ~WritestrRaises(zip_filename)
           THEN /\ zip_entries' = Append(zip_entries,
                                    [name |-> ZipInfoName(zip_filename),
                                     data |-> r.jpeg, index |-> idx])
                /\ UNCHANGED <<skipped, response>>
                /\ idx' = idx + 1
                /\ pc' = "loop"
           ELSE /\ response' = IF r.ok
                               THEN HTTPException(500, WritestrMessage(zip_filename))
                               ELSE HTTPException(r.status_code, r.detail)
                /\ UNCHANGED <<zip_entries, skipped, idx>>
                /\ pc' = "done"
    /\ UNCHANGED <<endpoint, file, files, image_bytes, reads>>

\* the item's `except` clause retrying the item instead of `continue`
BatchProcessRetry ==
    /\ endpoint = "batch"
    /\ pc = "process"
    /\ calls' = [calls EXCEPT ![idx] = @ + 1]
    /\ LET r == ProcessImage(image_bytes)
           zip_filename == ZipFilename(idx, files[idx + 1].filename)
       IN  IF r.ok /\ ~WritestrRaises(zip_filename)
           THEN /\ zip_entries' = Append(zip_entries,
                                    [name |-> ZipInfoName(zip_filename),
                                     data |-> r.jpeg, index |-> idx])
                /\ idx' = idx + 1
                /\ pc' = "loop"
           ELSE /\ zip_entries' = zip_entries
                /\ idx' = idx
                /\ pc' = "read"
    /\ UNCHANGED <<endpoint, file, files, image_bytes, reads, skipped, response>>

\* processed_bytes = process_image(image_bytes), then
\* zip_file.writestr(zip_filename, processed_bytes); an exception of either
\* call (the HTTPException of process_image, the error of writestr for a
\* name the archive cannot store) ends in logger.error(...) and continue
BatchProcess ==
    /\ endpoint = "batch"
    /\ pc = "process"
    /\ calls' = [calls EXCEPT ![idx] = @ + 1]
    /\ LET r == ProcessImage(image_bytes)
           zip_filename == ZipFilename(idx, files[idx + 1].filename)
       IN  IF r.ok /\ ~WritestrRaises(zip_filename)
           THEN /\ zip_entries' = Append(zip_entries,
                                    [name |-> ZipInfoName(zip_filename),
                                     data |-> r.jpeg, index |-> idx])
                /\ skipped' = skipped
           ELSE /\ zip_entries' = zip_entries
                /\ skipped' = skipped \cup {idx}
    /\ idx' = idx + 1
    /\ pc' = "loop"
    /\ UNCHANGED <<endpoint, file, files, image_bytes, reads, response>>

\* the loop is exhausted: return Response(content=zip_bytes, ...)
BatchRespond ==
    /\ endpoint = "batch"
    /\ pc = "loop"
    /\ idx >= Len(files)
    /\ response' = [NoResponse EXCEPT
                      !.status = 200, !.media_type = "application/zip",
                      !.zip = zip_entries,
                      !.disposition =
                          <<"attachment; filename=\"processed_garments.zip\"">>]
    /\ pc' = "done"
    /\ UNCHANGED <<endpoint, file, files, idx, image_bytes, zip_entries, skipped, reads, calls>>

NextBatch == BatchMissingFiles \/ BatchValidate \/ BatchCheckType \/ BatchRead \/ BatchProcess \/ BatchRespond

SpecBatch == InitBatch /\ [][NextBatch]_vars

Init == InitSingle \/ InitBatch

Next == NextSingle \/ NextBatch

Spec == Init /\ [][Next]_vars

(***************************************************************************)
(* Vocabulary of the properties, stated without the operators above.       *)
(***************************************************************************)
\* the declared content type has the form image/*
DeclaredImage(ct) ==
    /\ ~ct.none
    /\ Len(ct.str) >= 6
    /\ ct.str[1] = "i" /\ ct.str[2] = "m" /\ ct.str[3] = "a"
    /\ ct.str[4] = "g" /\ ct.str[5] = "e" /\ ct.str[6] = "/"

Positions == 0..(Len(files) - 1)

Accepted == Len(files) >= 1 /\ Len(files) <= MAX_BATCH_SIZE

HasEntry(i) == \E k \in 1..Len(zip_entries) : zip_entries[k].index = i

\* item i has been written to the archive or skipped
Settled(i) == HasEntry(i) \/ i \in skipped

\* item i has been read and is not settled yet
InFlight(i) == reads[i] > 0 /\ ~Settled(i)

\* item i has been looked at in any way
Touched(i) == reads[i] > 0 \/ calls[i] > 0 \/ Settled(i)

\* single-image processing of item i succeeds
Succeeds(i) == ProcessImage(files[i + 1].image).ok

\* base is filename with its final extension removed, if it has one
IsBaseNameOf(base, filename) ==
    \/ /\ \A k \in 1..Len(filename) : filename[k] # "."
       /\ base = filename
    \/ \E k \in 1..Len(filename) :
          /\ filename[k] = "."
          /\ \A j \in (k + 1)..Len(filename) : filename[j] # "."
          /\ Len(base) = k - 1
          /\ \A j \in 1..(k - 1) : base[j] = filename[j]

DigitValue(c) == CHOOSE d \in 0..9 : DigitChars[d + 1] = c

\* name is "{i:03d}_{basename}.jpg" for an item at position i < 1000
IsEntryNameOf(name, i, filename) ==
    /\ Len(name) >= 8
    /\ \A k \in 1..3 : \E d \in 1..10 : DigitChars[d] = name[k]
    /\ 100 * DigitValue(name[1]) + 10 * DigitValue(name[2]) + DigitValue(name[3]) = i
    /\ name[4] = "_"
    /\ SubSeq(name, Len(name) - 3, Len(name)) = <<".", "j", "p", "g">>
    /\ IsBaseNameOf(SubSeq(name, 5, Len(name) - 4), filename)

\* round(num / den) for positive integers: nearest, ties to even
RoundDiv(num, den) ==
    LET q == num \div den
        r == num % den
    IN  IF 2 * r < den THEN q
        ELSE IF 2 * r > den THEN q + 1
        ELSE IF q % 2 = 0 THEN q ELSE q + 1

\* the mode carries an alpha channel or a palette
HasAlphaOrPalette(mode) == mode \in {"RGBA", "RGBa", "LA", "La", "P", "PA"}

\* the first step of process_image that fails on these bytes, or "none"
FailingStep(img) ==
    IF img.fault \in {"decode", "convert"} THEN img.fault
    ELSE IF img.width > MAX_IMAGE_WIDTH
            /\ (img.fault = "resize" \/ NewHeight(img.width, img.height) < 1)
         THEN "resize"
    ELSE IF img.fault = "resize" THEN "none"
    ELSE img.fault

\* the message of the error raised at the failing step
OriginalMessage(img) ==
    IF /\ FailingStep(img) = "resize"
       /\ NewHeight(img.width, img.height) < 1
    THEN EmptySizeMessage
    ELSE FaultMessage(FailingStep(img))

(***************************************************************************)
(* Properties.                                                             *)
(***************************************************************************)

\* C1: a batch of 0 or of more than 15 items is rejected with HTTP 400
\* before any item is read, processed or written to the archive, and a
\* batch of 1..15 items is never answered with 400.
C1_SizeCheckRejectsBeforeProcessing ==
    /\ ~Accepted =>
          /\ pc \in {"start", "done"}
          /\ pc = "done" => response.status = 400
          /\ \A i \in Positions : ~Touched(i)
          /\ zip_entries = <<>>
    /\ Accepted => response.status # 400

\* C2: in a batch of 1..15 items no item's failure fails the batch: the
\* only response is 200 with the ZIP archive, and by then every item has
\* been attempted and is either in the archive or skipped, whatever
\* happened to the items before it.
C2_ItemFailureNeverFailsBatch ==
    Accepted =>
       /\ response.status \in {0, 200}
       /\ pc = "done" =>
             /\ response.status = 200
             /\ response.media_type = "application/zip"
             /\ response.zip = zip_entries
             /\ \A i \in Positions :
                   /\ Settled(i)
                   /\ DeclaredImage(files[i + 1].content_type) =>
                         (reads[i] = 1 /\ calls[i] = 1)

\* C2 witness: every item of a batch failed or was skipped, one of them
\* with the HTTP 500 of process_image, and the archive returned is empty
C2_Witness ==
    /\ pc = "done"
    /\ Len(files) >= 2
    /\ response.status = 200
    /\ response.zip = <<>>
    /\ \E i \in Positions : calls[i] = 1 /\ ~Succeeds(i)
    /\ \E i \in Positions : ~DeclaredImage(files[i + 1].content_type)

\* C3: the archive returned for a batch of 1..15 items holds exactly one
\* entry for each item that is declared an image and whose processing
\* succeeds, and no other entry.
C3_ArchiveHoldsExactlyTheSuccesses ==
    (pc = "done" /\ Accepted) =>
       /\ \A i \in Positions :
             (DeclaredImage(files[i + 1].content_type) /\ Succeeds(i))
                <=> (\E k \in 1..Len(response.zip) : response.zip[k].index = i)
       /\ \A k, l \in 1..Len(response.zip) :
             response.zip[k].index = response.zip[l].index => k = l
       /\ \A k \in 1..Len(response.zip) : response.zip[k].index \in Positions

\* C4: the entry written for the item at position i is named
\* "{i:03d}_{basename}.jpg", entries are written in increasing position,
\* and items skipped earlier do not renumber a later entry.
C4_EntryNamesKeepPosition ==
    /\ \A k \in 1..Len(zip_entries) :
          /\ zip_entries[k].index \in Positions
          /\ IsEntryNameOf(zip_entries[k].name, zip_entries[k].index,
                           files[zip_entries[k].index + 1].filename)
    /\ \A k \in 1..(Len(zip_entries) - 1) :
          zip_entries[k].index < zip_entries[k + 1].index

\* C5: a file whose declared content type is not image/* (a missing type
\* included) gets HTTP 400 from the single endpoint, never 500, and is
\* neither read nor processed.
C5_NonImageIsAlways400 ==
    (pc = "done" /\ ~DeclaredImage(file.content_type)) =>
       /\ response.status = 400
       /\ reads[0] = 0
       /\ calls[0] = 0

\* C6: when a step of process_image fails, the single endpoint answers
\* HTTP 500 with the processing-failed detail that carries the original
\* message, and no image bytes or 200.
C6_ProcessingFailureIs500WithMessage ==
    (pc = "done" /\ calls[0] > 0 /\ FailingStep(file.image) # "none") =>
       /\ response.status = 500
       /\ response.detail = <<"Error procesando imagen: ", OriginalMessage(file.image)>>
       /\ response.jpeg = NoJpeg
       /\ response.media_type # "image/jpeg"

\* C6 witness: the last step, the JPEG encoding, failed
C6_Witness ==
    /\ pc = "done"
    /\ calls[0] = 1
    /\ file.image.fault = "encode"
    /\ response.status = 500

\* C7: an image at most 1024 wide keeps its size, and a wider one of size
\* w x h comes out 1024 wide and round(h * 1024 / w) high, for all sizes
\* (seen in the JPEG returned for a file whose name the response header
\* can carry).
C7_ResizeRoundsHeight ==
    (/\ pc = "done" /\ calls[0] > 0 /\ file.image.fault = "none"
     /\ \A k \in 1..Len(file.filename) : file.filename[k] \notin NonLatin1) =>
       /\ response.status = 200
       /\ file.image.width <= MAX_IMAGE_WIDTH =>
             /\ response.jpeg.width = file.image.width
             /\ response.jpeg.height = file.image.height
       /\ file.image.width > MAX_IMAGE_WIDTH =>
             /\ response.jpeg.width = MAX_IMAGE_WIDTH
             /\ response.jpeg.height =
                   RoundDiv(file.image.height * MAX_IMAGE_WIDTH, file.image.width)

\* C8: batch items are handled one after the other in input order: an
\* item is touched only when every earlier item is settled, at most one
\* item is in flight, and no item is read or processed twice.
C8_StrictlySequential ==
    /\ \A i \in Positions : reads[i] <= 1 /\ calls[i] <= reads[i]
    /\ \A i, j \in Positions : (i < j /\ Touched(j)) => Settled(i)
    /\ Cardinality({i \in Positions : InFlight(i)}) <= 1
    /\ \A i \in Positions : InFlight(i) => (i = idx /\ pc = "process")

\* C8 witness: the second of three items is in flight, the first is
\* settled and the third untouched
C8_Witness ==
    /\ Len(files) >= 3
    /\ Settled(0)
    /\ InFlight(1)
    /\ ~Touched(2)

\* C9: the decoded image is converted to RGBA when its mode carries alpha
\* or a palette, and to RGB otherwise, for every mode the decoder produces.
C9_AlphaModesBecomeRGBA ==
    (pc = "done" /\ response.status = 200) =>
       response.jpeg.source_mode =
          (IF HasAlphaOrPalette(file.image.mode) THEN "RGBA" ELSE "RGB")

\* C10: no two entries of an archive have the same name, also when items
\* share a file name or a base name.
C10_EntryNamesAreUnique ==
    /\ \A k, l \in 1..Len(zip_entries) :
          zip_entries[k].name = zip_entries[l].name => k = l
    /\ \A k, l \in 1..Len(response.zip) :
          response.zip[k].name = response.zip[l].name => k = l

\* C10 witness: an archive with entries for "a.png" and "a.jpg", and with
\* two entries for the same file name
C10_Witness ==
    /\ pc = "done"
    /\ \E k, l \in 1..Len(response.zip) :
          /\ k # l
          /\ files[response.zip[k].index + 1].filename = FN_A_PNG
          /\ files[response.zip[l].index + 1].filename = FN_A_JPG
    /\ \E k, l \in 1..Len(response.zip) :
          /\ k # l
          /\ files[response.zip[k].index + 1].filename
                = files[response.zip[l].index + 1].filename

====
